---- MODULE Spec2Model ----
(***************************************************************************)
(* Model of the PomodoroTimer component of src/main.rs: the five signals   *)
(* (settings, mode, seconds_remaining, is_active, sessions_completed,      *)
(* interval), the four closures start_timer, pause_timer, reset_timer and  *)
(* change_mode, and the timer_callback the gloo Interval fires once per    *)
(* second.  An Interval is a live browser registration until it is         *)
(* dropped; `registrations' is the set of registrations that are live.     *)
(* All handlers run to completion on one event loop, so each is one step.  *)
(* u32 values stay far below 2^32 within the bounds explored.              *)
(***************************************************************************)
EXTENDS Integers, FiniteSets, Sequences, TLC

\* ---------------------------------------------------------------- bounds
\* cap on sessions_completed (the counter is unbounded in the program)
MaxSessions == 5
\* number of distinct Interval handles the scheduler can hand out
MaxRegistrations == 2
\* length of the window in which ticks since the last command are counted
MaxTicks == 3

\* ------------------------------------------------------------ data model
TimerMode == {"Work", "ShortBreak", "LongBreak"}

settings ==
    [work_minutes |-> 25,
     short_break_minutes |-> 5,
     long_break_minutes |-> 15,
     sessions_before_long_break |-> 4]

\* None::<Interval>
None == 0
Handles == 1..MaxRegistrations

VARIABLES
    mode,                \* signal mode
    seconds_remaining,   \* signal seconds_remaining
    is_active,           \* signal is_active
    sessions_completed,  \* signal sessions_completed
    interval,            \* signal interval: None or the handle it owns
    registrations,       \* Intervals that are live in the scheduler
    lastOp,              \* history: the handler that ran last
    prevActive,          \* history: is_active before that handler ran
    runFrom,             \* history: seconds_remaining after the last command
    nTicks,              \* history: ticks since the last command (windowed)
    lastArg,             \* history: the mode passed to change_mode, or "none"
    scriptRound,         \* history: Work intervals completed while the run
                         \* has been exactly (start, ticks to completion,
                         \* change_mode(Work)) repeated from Init; -1 otherwise
    scriptTicks          \* history: ticks of the current interval of that run

vars == <<mode, seconds_remaining, is_active, sessions_completed, interval,
          registrations, lastOp, prevActive, runFrom, nTicks, lastArg,
          scriptRound, scriptTicks>>

\* the component's state as one value
St ==
    [mode |-> mode,
     seconds_remaining |-> seconds_remaining,
     is_active |-> is_active,
     sessions_completed |-> sessions_completed,
     interval |-> interval,
     registrations |-> registrations]

\* ------------------------------------------------------- scheduler glue
\* interval.set(v): the signal takes v and the Interval it held is dropped,
\* which cancels that registration.
set_interval_leak(s, v) ==
    [s EXCEPT !.interval = v]

set_interval(s, v) ==
    [s EXCEPT !.interval = v,
              !.registrations = IF s.interval = None THEN @ ELSE @ \ {s.interval}]

\* Interval::new(1000, timer_callback): a new live registration
Interval_new(regs) ==
    CHOOSE h \in Handles \ regs : \A j \in Handles \ regs : h <= j

\* --------------------------------------------------------------- helpers
\* full duration in seconds of a mode (the match of reset_timer/change_mode)
full_seconds(m) ==
    CASE m = "Work" -> settings.work_minutes * 60
      [] m = "ShortBreak" -> settings.short_break_minutes * 60
      [] m = "LongBreak" -> settings.long_break_minutes * 60

\* -------------------------------------------------------- timer_callback
\* mutant: the long-break test uses the count before the increment
timer_callback_stale_count(s) ==
    IF s.seconds_remaining <= 1
    THEN LET s1 == [s EXCEPT !.seconds_remaining = 0, !.is_active = FALSE]
             s2 == set_interval(s1, None)
         IN IF s2.mode = "Work"
            THEN LET current_sessions == s2.sessions_completed + 1
                     s3 == [s2 EXCEPT !.sessions_completed = current_sessions]
                 IN IF s2.sessions_completed % settings.sessions_before_long_break = 0
                    THEN [s3 EXCEPT !.mode = "LongBreak",
                                    !.seconds_remaining = settings.long_break_minutes * 60]
                    ELSE [s3 EXCEPT !.mode = "ShortBreak",
                                    !.seconds_remaining = settings.short_break_minutes * 60]
            ELSE [s2 EXCEPT !.mode = "Work",
                            !.seconds_remaining = settings.work_minutes * 60]
    ELSE [s EXCEPT !.seconds_remaining = s.seconds_remaining - 1]

\* mutant: a finished break is counted as a session and restarts a break
timer_callback_break_counts(s) ==
    IF s.seconds_remaining <= 1
    THEN LET s1 == [s EXCEPT !.seconds_remaining = 0, !.is_active = FALSE]
             s2 == set_interval(s1, None)
             current_sessions == s2.sessions_completed + 1
             s3 == [s2 EXCEPT !.sessions_completed = current_sessions]
         IN IF current_sessions % settings.sessions_before_long_break = 0
            THEN [s3 EXCEPT !.mode = "LongBreak",
                            !.seconds_remaining = settings.long_break_minutes * 60]
            ELSE [s3 EXCEPT !.mode = "ShortBreak",
                            !.seconds_remaining = settings.short_break_minutes * 60]
    ELSE [s EXCEPT !.seconds_remaining = s.seconds_remaining - 1]

\* mutant: the completing tick leaves the timer running
timer_callback_keeps_running(s) ==
    IF s.seconds_remaining <= 1
    THEN LET s2 == [s EXCEPT !.seconds_remaining = 0]
         IN IF s2.mode = "Work"
            THEN LET current_sessions == s2.sessions_completed + 1
                     s3 == [s2 EXCEPT !.sessions_completed = current_sessions]
                 IN IF current_sessions % settings.sessions_before_long_break = 0
                    THEN [s3 EXCEPT !.mode = "LongBreak",
                                    !.seconds_remaining = settings.long_break_minutes * 60]
                    ELSE [s3 EXCEPT !.mode = "ShortBreak",
                                    !.seconds_remaining = settings.short_break_minutes * 60]
            ELSE [s2 EXCEPT !.mode = "Work",
                            !.seconds_remaining = settings.work_minutes * 60]
    ELSE [s EXCEPT !.seconds_remaining = s.seconds_remaining - 1]

\* mutant: the end test is `< 1', so the countdown shows 0 for one second
timer_callback_late_end(s) ==
    IF s.seconds_remaining < 1
    THEN LET s1 == [s EXCEPT !.seconds_remaining = 0, !.is_active = FALSE]
             s2 == set_interval(s1, None)
         IN IF s2.mode = "Work"
            THEN LET current_sessions == s2.sessions_completed + 1
                     s3 == [s2 EXCEPT !.sessions_completed = current_sessions]
                 IN IF current_sessions % settings.sessions_before_long_break = 0
                    THEN [s3 EXCEPT !.mode = "LongBreak",
                                    !.seconds_remaining = settings.long_break_minutes * 60]
                    ELSE [s3 EXCEPT !.mode = "ShortBreak",
                                    !.seconds_remaining = settings.short_break_minutes * 60]
            ELSE [s2 EXCEPT !.mode = "Work",
                            !.seconds_remaining = settings.work_minutes * 60]
    ELSE [s EXCEPT !.seconds_remaining = s.seconds_remaining - 1]

\* mutant: the countdown loses two seconds per tick
timer_callback_double_step(s) ==
    IF s.seconds_remaining <= 2
    THEN LET s1 == [s EXCEPT !.seconds_remaining = 0, !.is_active = FALSE]
             s2 == set_interval(s1, None)
         IN IF s2.mode = "Work"
            THEN LET current_sessions == s2.sessions_completed + 1
                     s3 == [s2 EXCEPT !.sessions_completed = current_sessions]
                 IN IF current_sessions % settings.sessions_before_long_break = 0
                    THEN [s3 EXCEPT !.mode = "LongBreak",
                                    !.seconds_remaining = settings.long_break_minutes * 60]
                    ELSE [s3 EXCEPT !.mode = "ShortBreak",
                                    !.seconds_remaining = settings.short_break_minutes * 60]
            ELSE [s2 EXCEPT !.mode = "Work",
                            !.seconds_remaining = settings.work_minutes * 60]
    ELSE [s EXCEPT !.seconds_remaining = s.seconds_remaining - 2]

\* mutant: the countdown stops at one second and the interval never ends
timer_callback_never_ends(s) ==
    IF s.seconds_remaining <= 1
    THEN s
    ELSE [s EXCEPT !.seconds_remaining = s.seconds_remaining - 1]

\* mutant: the completing tick drops the Interval but leaves is_active set
timer_callback_stays_active(s) ==
    IF s.seconds_remaining <= 1
    THEN LET s1 == [s EXCEPT !.seconds_remaining = 0]
             s2 == set_interval(s1, None)
         IN IF s2.mode = "Work"
            THEN LET current_sessions == s2.sessions_completed + 1
                     s3 == [s2 EXCEPT !.sessions_completed = current_sessions]
                 IN IF current_sessions % settings.sessions_before_long_break = 0
                    THEN [s3 EXCEPT !.mode = "LongBreak",
                                    !.seconds_remaining = settings.long_break_minutes * 60]
                    ELSE [s3 EXCEPT !.mode = "ShortBreak",
                                    !.seconds_remaining = settings.short_break_minutes * 60]
            ELSE [s2 EXCEPT !.mode = "Work",
                            !.seconds_remaining = settings.work_minutes * 60]
    ELSE [s EXCEPT !.seconds_remaining = s.seconds_remaining - 1]

\* mutant: the break arm does not write the Work duration over the 0
timer_callback_shows_zero(s) ==
    IF s.seconds_remaining <= 1
    THEN LET s1 == [s EXCEPT !.seconds_remaining = 0, !.is_active = FALSE]
             s2 == set_interval(s1, None)
         IN IF s2.mode = "Work"
            THEN LET current_sessions == s2.sessions_completed + 1
                     s3 == [s2 EXCEPT !.sessions_completed = current_sessions]
                 IN IF current_sessions % settings.sessions_before_long_break = 0
                    THEN [s3 EXCEPT !.mode = "LongBreak",
                                    !.seconds_remaining = settings.long_break_minutes * 60]
                    ELSE [s3 EXCEPT !.mode = "ShortBreak",
                                    !.seconds_remaining = settings.short_break_minutes * 60]
            ELSE [s2 EXCEPT !.mode = "Work"]
    ELSE [s EXCEPT !.seconds_remaining = s.seconds_remaining - 1]

\* the closure the Interval calls every 1000 ms
timer_callback(s) ==
    IF s.seconds_remaining <= 1
    THEN LET s1 == [s EXCEPT !.seconds_remaining = 0, !.is_active = FALSE]
             s2 == set_interval(s1, None)
         IN IF s2.mode = "Work"
            THEN LET current_sessions == s2.sessions_completed + 1
                     s3 == [s2 EXCEPT !.sessions_completed = current_sessions]
                 IN IF current_sessions % settings.sessions_before_long_break = 0
                    THEN [s3 EXCEPT !.mode = "LongBreak",
                                    !.seconds_remaining = settings.long_break_minutes * 60]
                    ELSE [s3 EXCEPT !.mode = "ShortBreak",
                                    !.seconds_remaining = settings.short_break_minutes * 60]
            ELSE [s2 EXCEPT !.mode = "Work",
                            !.seconds_remaining = settings.work_minutes * 60]
    ELSE [s EXCEPT !.seconds_remaining = s.seconds_remaining - 1]

\* ----------------------------------------------------------- start_timer
\* mutant: starting also rewinds the countdown to the mode's full duration
start_timer_rewinds(s) ==
    IF ~s.is_active
    THEN LET s1 == [s EXCEPT !.is_active = TRUE,
                             !.seconds_remaining = full_seconds(s.mode)]
             s2 == IF s1.interval # None THEN set_interval(s1, None) ELSE s1
             new_interval == Interval_new(s2.registrations)
             s3 == [s2 EXCEPT !.registrations = @ \cup {new_interval}]
         IN set_interval(s3, new_interval)
    ELSE s

start_timer(s) ==
    IF ~s.is_active
    THEN LET s1 == [s EXCEPT !.is_active = TRUE]
             s2 == IF s1.interval # None THEN set_interval(s1, None) ELSE s1
             new_interval == Interval_new(s2.registrations)
             s3 == [s2 EXCEPT !.registrations = @ \cup {new_interval}]
         IN set_interval(s3, new_interval)
    ELSE s

\* ----------------------------------------------------------- pause_timer
\* mutant: pausing clears the flag but keeps the Interval
pause_timer_keeps_interval(s) ==
    IF s.is_active
    THEN [s EXCEPT !.is_active = FALSE]
    ELSE s

\* mutant: pausing rewinds the countdown to the mode's full duration
pause_timer_rewinds(s) ==
    IF s.is_active
    THEN set_interval([s EXCEPT !.is_active = FALSE,
                                !.seconds_remaining = full_seconds(s.mode)], None)
    ELSE s

pause_timer(s) ==
    IF s.is_active
    THEN set_interval([s EXCEPT !.is_active = FALSE], None)
    ELSE s

\* ----------------------------------------------------------- reset_timer
\* mutant: reset also clears the session count
reset_timer_clears_sessions(s) ==
    LET s1 == set_interval([s EXCEPT !.is_active = FALSE], None)
    IN [s1 EXCEPT !.sessions_completed = 0,
                  !.seconds_remaining = full_seconds(s1.mode)]

\* mutant: reset always restores the Work duration
reset_timer_always_work(s) ==
    LET s1 == set_interval([s EXCEPT !.is_active = FALSE], None)
    IN [s1 EXCEPT !.seconds_remaining = settings.work_minutes * 60]

reset_timer(s) ==
    LET s1 == set_interval([s EXCEPT !.is_active = FALSE], None)
    IN CASE s1.mode = "Work" ->
              [s1 EXCEPT !.seconds_remaining = settings.work_minutes * 60]
         [] s1.mode = "ShortBreak" ->
              [s1 EXCEPT !.seconds_remaining = settings.short_break_minutes * 60]
         [] s1.mode = "LongBreak" ->
              [s1 EXCEPT !.seconds_remaining = settings.long_break_minutes * 60]

\* ----------------------------------------------------------- change_mode
\* mutant: the mode is switched but the remaining time is kept
change_mode_keeps_time(s, new_mode) ==
    IF s.mode # new_mode
    THEN set_interval([s EXCEPT !.mode = new_mode, !.is_active = FALSE], None)
    ELSE s

\* mutant: the mode is switched but the Interval is not cancelled
change_mode_keeps_interval(s, new_mode) ==
    IF s.mode # new_mode
    THEN [s EXCEPT !.mode = new_mode, !.is_active = FALSE,
                   !.seconds_remaining = full_seconds(new_mode)]
    ELSE s

\* mutant: the LongBreak arm takes the short break's minutes
change_mode_wrong_arm(s, new_mode) ==
    IF s.mode # new_mode
    THEN LET s1 == set_interval([s EXCEPT !.mode = new_mode, !.is_active = FALSE], None)
         IN CASE new_mode = "Work" ->
                   [s1 EXCEPT !.seconds_remaining = settings.work_minutes * 60]
              [] new_mode = "ShortBreak" ->
                   [s1 EXCEPT !.seconds_remaining = settings.short_break_minutes * 60]
              [] new_mode = "LongBreak" ->
                   [s1 EXCEPT !.seconds_remaining = settings.short_break_minutes * 60]
    ELSE s

\* mutant: the test `mode != new_mode' is missing
change_mode_unguarded(s, new_mode) ==
    LET s1 == set_interval([s EXCEPT !.mode = new_mode, !.is_active = FALSE], None)
    IN [s1 EXCEPT !.seconds_remaining = full_seconds(new_mode)]

\* mutant: leaving a mode by hand forgets the sessions counted so far
change_mode_clears_sessions(s, new_mode) ==
    IF s.mode # new_mode
    THEN LET s1 == set_interval([s EXCEPT !.mode = new_mode, !.is_active = FALSE,
                                          !.sessions_completed = 0], None)
         IN [s1 EXCEPT !.seconds_remaining = full_seconds(new_mode)]
    ELSE s

change_mode(s, new_mode) ==
    IF s.mode # new_mode
    THEN LET s1 == set_interval([s EXCEPT !.mode = new_mode, !.is_active = FALSE], None)
         IN CASE new_mode = "Work" ->
                   [s1 EXCEPT !.seconds_remaining = settings.work_minutes * 60]
              [] new_mode = "ShortBreak" ->
                   [s1 EXCEPT !.seconds_remaining = settings.short_break_minutes * 60]
              [] new_mode = "LongBreak" ->
                   [s1 EXCEPT !.seconds_remaining = settings.long_break_minutes * 60]
    ELSE s

\* ---------------------------------------------------------- time_display
\* the character of one decimal digit
DigitChar(d) ==
    <<"0", "1", "2", "3", "4", "5", "6", "7", "8", "9">>[d + 1]

\* the decimal digits of n, most significant first
RECURSIVE Decimal(_)
Decimal(n) ==
    IF n < 10 THEN <<DigitChar(n)>>
    ELSE Decimal(n \div 10) \o <<DigitChar(n % 10)>>

\* "{:02}": decimal, padded with zeros on the left to at least two characters
Format02(n) ==
    LET d == Decimal(n)
    IN IF Len(d) < 2 THEN <<"0">> \o d ELSE d

\* mutant: the minutes are written without padding ("{}:{:02}")
time_display_unpadded(secs) ==
    LET minutes == secs \div 60
        seconds == secs % 60
    IN Decimal(minutes) \o <<":">> \o Format02(seconds)

\* the string shown in the timer-display element
time_display(secs) ==
    LET minutes == secs \div 60
        seconds == secs % 60
    IN Format02(minutes) \o <<":">> \o Format02(seconds)

\* ------------------------------------------------------------ transitions
Apply(s) ==
    /\ mode' = s.mode
    /\ seconds_remaining' = s.seconds_remaining
    /\ is_active' = s.is_active
    /\ sessions_completed' = s.sessions_completed
    /\ interval' = s.interval
    /\ registrations' = s.registrations

\* history kept for a user command
Command(op) ==
    /\ lastOp' = op
    /\ prevActive' = is_active
    /\ runFrom' = seconds_remaining'
    /\ nTicks' = 0

\* history of the scripted run: it goes on with the given counters when the
\* step follows the script, and is abandoned otherwise
Script(follows, round, ticks) ==
    /\ scriptRound' = IF follows THEN round ELSE -1
    /\ scriptTicks' = IF follows THEN ticks ELSE 0

Init ==
    /\ mode = "Work"
    /\ seconds_remaining = settings.work_minutes * 60
    /\ is_active = FALSE
    /\ sessions_completed = 0
    /\ interval = None
    /\ registrations = {}
    /\ lastOp = "init"
    /\ prevActive = FALSE
    /\ runFrom = settings.work_minutes * 60
    /\ nTicks = 0
    /\ lastArg = "none"
    /\ scriptRound = 0
    /\ scriptTicks = 0

\* onclick of the start button
Start ==
    /\ is_active \/ Handles \ (registrations \ {interval}) # {}
    /\ Apply(start_timer(St))
    /\ Command("start")
    /\ lastArg' = "none"
    /\ Script(scriptRound >= 0 /\ ~is_active /\ lastOp \in {"init", "change_mode"},
              scriptRound, 0)

\* onclick of the pause button
Pause ==
    /\ Apply(pause_timer(St))
    /\ Command("pause")
    /\ lastArg' = "none"
    /\ Script(FALSE, 0, 0)

\* onclick of the reset button
Reset ==
    /\ Apply(reset_timer(St))
    /\ Command("reset")
    /\ lastArg' = "none"
    /\ Script(FALSE, 0, 0)

\* onclick of one of the three mode buttons
ChangeMode(new_mode) ==
    /\ Apply(change_mode(St, new_mode))
    /\ Command("change_mode")
    /\ lastArg' = new_mode
    /\ Script(scriptRound >= 0 /\ ~is_active /\ lastOp = "tick" /\ new_mode = "Work",
              scriptRound, 0)

\* a live Interval fires its callback
Tick(h) ==
    /\ h \in registrations
    /\ ~(mode = "Work" /\ seconds_remaining <= 1 /\ sessions_completed >= MaxSessions)
    /\ Apply(timer_callback(St))
    /\ lastOp' = "tick"
    /\ prevActive' = is_active
    /\ nTicks' = IF nTicks >= MaxTicks THEN MaxTicks + 1 ELSE nTicks + 1
    /\ runFrom' = IF nTicks >= MaxTicks THEN 0 ELSE runFrom
    /\ lastArg' = "none"
    /\ Script(scriptRound >= 0 /\ lastOp \in {"start", "tick"},
              IF is_active' THEN scriptRound ELSE scriptRound + 1,
              scriptTicks + 1)

Next ==
    \/ Start
    \/ Pause
    \/ Reset
    \/ \E new_mode \in TimerMode : ChangeMode(new_mode)
    \/ \E h \in registrations : Tick(h)

Spec == Init /\ [][Next]_vars

\* a registered Interval keeps firing: the browser calls it every 1000 ms
\* until it is dropped
SpecFair ==
    Init /\ [][Next]_vars /\ WF_vars(\E h \in registrations : Tick(h))

TypeOK ==
    /\ mode \in TimerMode
    /\ seconds_remaining \in Nat
    /\ is_active \in BOOLEAN
    /\ sessions_completed \in 0..MaxSessions
    /\ interval \in {None} \cup Handles
    /\ registrations \subseteq Handles
    /\ lastArg \in TimerMode \cup {"none"}
    /\ scriptRound \in -1..MaxSessions
    /\ scriptTicks \in Nat

\* ---------------------------------------------------------------- claims
Min(a, b) == IF a <= b THEN a ELSE b

\* the step is a tick that ends the running interval
CompletingTick ==
    lastOp' = "tick" /\ is_active /\ seconds_remaining <= 1

\* C1: a tick that completes a Work interval, with s sessions completed
\* before it, leads to LongBreak at its full duration when s + 1 is a
\* multiple of sessions_before_long_break, and otherwise to ShortBreak at
\* its full duration.
C1_WorkCompletion ==
    [][(CompletingTick /\ mode = "Work") =>
          IF (sessions_completed + 1) % settings.sessions_before_long_break = 0
          THEN /\ mode' = "LongBreak"
               /\ seconds_remaining' = settings.long_break_minutes * 60
          ELSE /\ mode' = "ShortBreak"
               /\ seconds_remaining' = settings.short_break_minutes * 60]_vars

C1_Witness ==
    /\ lastOp = "tick"
    /\ mode = "LongBreak"
    /\ ~is_active
    /\ sessions_completed = settings.sessions_before_long_break
    /\ seconds_remaining = settings.long_break_minutes * 60

\* C2: a tick that completes a ShortBreak or LongBreak interval leads to
\* Work at its full duration and leaves sessions_completed unchanged.
C2_BreakCompletion ==
    [][(CompletingTick /\ mode \in {"ShortBreak", "LongBreak"}) =>
          /\ mode' = "Work"
          /\ seconds_remaining' = settings.work_minutes * 60
          /\ sessions_completed' = sessions_completed]_vars

C2_Witness ==
    /\ lastOp = "tick"
    /\ mode = "Work"
    /\ ~is_active
    /\ prevActive
    /\ seconds_remaining = settings.work_minutes * 60
    /\ sessions_completed = settings.sessions_before_long_break

\* C3: at most one registration is live in every reachable state.
C3_OneRegistration ==
    Cardinality(registrations) <= 1

\* start was pressed while the timer was already running
C3_Witness ==
    /\ lastOp = "start"
    /\ prevActive
    /\ Cardinality(registrations) = 1

\* C4: between handlers, is_active holds exactly when the interval signal
\* holds an Interval, and exactly when a registration is live.
C4_ActiveIffArmed ==
    /\ is_active <=> interval # None
    /\ is_active <=> registrations # {}

C4_Witness ==
    /\ lastOp = "pause"
    /\ prevActive
    /\ ~is_active
    /\ interval = None

\* C5: a completing tick stops the timer (flag cleared, Interval dropped,
\* nothing live) in the next mode at that mode's full duration, and while
\* the timer is stopped only start makes it run again: ticks and pause
\* leave mode, remaining time and session count as they are.
C5_NoRearm ==
    /\ [][CompletingTick =>
             /\ ~is_active'
             /\ interval' = None
             /\ registrations' = {}
             /\ mode' # mode
             /\ seconds_remaining' = full_seconds(mode')]_vars
    /\ [][(~is_active /\ lastOp' # "start") =>
             /\ ~is_active'
             /\ lastOp' \in {"tick", "pause"} =>
                   UNCHANGED <<mode, seconds_remaining, sessions_completed>>]_vars

C5_Witness ==
    /\ lastOp = "tick"
    /\ prevActive
    /\ ~is_active
    /\ registrations = {}
    /\ mode = "ShortBreak"
    /\ seconds_remaining = settings.short_break_minutes * 60

\* C6: every tick is taken from a state where is_active holds and the
\* firing registration is the one the interval signal owns; once the timer
\* is stopped no registration is left that could fire.
C6_NoTickAfterCancel ==
    /\ [][lastOp' = "tick" =>
             is_active /\ interval # None /\ registrations = {interval}]_vars
    /\ [](~is_active => registrations = {})

\* a running timer was cancelled by a mode change
C6_Witness ==
    /\ lastOp = "change_mode"
    /\ prevActive
    /\ ~is_active
    /\ registrations = {}
    /\ mode = "LongBreak"

\* C7: seconds_remaining always lies in 0 .. full duration of the mode.
C7_RemainingInRange ==
    /\ seconds_remaining >= 0
    /\ seconds_remaining <= full_seconds(mode)

\* a manual change into the shortest mode
C7_Witness ==
    /\ lastOp = "change_mode"
    /\ mode = "ShortBreak"
    /\ sessions_completed > 0
    /\ seconds_remaining = full_seconds("ShortBreak")

\* C8 as stated: after n ticks since the last command, which left r seconds,
\* seconds_remaining is r - min(n, r).
C8_Original ==
    (lastOp = "tick" /\ nTicks <= MaxTicks) =>
        seconds_remaining = runFrom - Min(nTicks, runFrom)

\* C8 amended: after n ticks since the last command, which left r seconds,
\* n <= r; for n < r the timer still runs with r - n seconds; the r-th tick
\* completes the interval and leaves the next mode's full duration; the
\* remaining time is never negative.
C8_Countdown ==
    (lastOp = "tick" /\ nTicks <= MaxTicks) =>
        /\ nTicks <= runFrom
        /\ seconds_remaining >= 0
        /\ nTicks < runFrom =>
              is_active /\ seconds_remaining = runFrom - nTicks
        /\ nTicks = runFrom =>
              ~is_active /\ seconds_remaining = full_seconds(mode)

\* a run of at least two ticks that ended the interval
C8_Witness ==
    /\ lastOp = "tick"
    /\ nTicks >= 2
    /\ nTicks <= MaxTicks
    /\ nTicks = runFrom

\* C9: sessions_completed never decreases; it changes only by +1 and only
\* in a tick that completes a Work interval.
C9_SessionsMonotone ==
    [][\/ sessions_completed' = sessions_completed
       \/ /\ sessions_completed' = sessions_completed + 1
          /\ CompletingTick
          /\ mode = "Work"]_vars

\* a running Work interval was abandoned by reset after a counted session
C9_Witness ==
    /\ lastOp = "reset"
    /\ prevActive
    /\ mode = "Work"
    /\ sessions_completed >= 1

\* C10: start while running changes nothing; start while stopped sets
\* is_active, arms exactly one registration owned by the interval signal,
\* and keeps mode, seconds_remaining and sessions_completed.
C10_StartFrame ==
    [][lastOp' = "start" =>
          IF is_active
          THEN UNCHANGED <<mode, seconds_remaining, is_active,
                           sessions_completed, interval, registrations>>
          ELSE /\ is_active'
               /\ interval' # None
               /\ registrations' = {interval'}
               /\ UNCHANGED <<mode, seconds_remaining, sessions_completed>>]_vars

\* start pressed again in the middle of a countdown
C10_Witness ==
    /\ lastOp = "start"
    /\ prevActive
    /\ is_active
    /\ seconds_remaining < full_seconds(mode)

\* the signals and the scheduler, without the history variables
prog == <<mode, seconds_remaining, is_active, sessions_completed, interval,
          registrations>>

\* C11: pause while stopped changes nothing; pause while running clears
\* is_active, drops the Interval and keeps mode, seconds_remaining and
\* sessions_completed; a start right after a pause runs again with the
\* seconds_remaining the pause left.
C11_PausePreserves ==
    /\ [][lastOp' = "pause" =>
             IF is_active
             THEN /\ ~is_active'
                  /\ interval' = None
                  /\ registrations' = {}
                  /\ UNCHANGED <<mode, seconds_remaining, sessions_completed>>
             ELSE UNCHANGED prog]_vars
    /\ [][(lastOp = "pause" /\ lastOp' = "start") =>
             /\ is_active'
             /\ seconds_remaining' = runFrom
             /\ UNCHANGED <<mode, sessions_completed>>]_vars

\* a stopped timer in the middle of a countdown (only pause leaves one)
\* was started again
C11_Witness ==
    /\ lastOp = "start"
    /\ ~prevActive
    /\ is_active
    /\ seconds_remaining < full_seconds(mode)
    /\ seconds_remaining = runFrom

\* C12: reset stops the timer, drops the Interval, restores the full
\* duration of the current mode and keeps mode and sessions_completed.
C12_ResetFrame ==
    [][lastOp' = "reset" =>
          /\ ~is_active'
          /\ interval' = None
          /\ registrations' = {}
          /\ seconds_remaining' = full_seconds(mode)
          /\ UNCHANGED <<mode, sessions_completed>>]_vars

C12_Witness ==
    /\ lastOp = "reset"
    /\ prevActive
    /\ ~is_active
    /\ mode = "LongBreak"
    /\ seconds_remaining = settings.long_break_minutes * 60
    /\ sessions_completed = 2

\* C13: change_mode to a mode other than the current one sets that mode,
\* stops the timer, drops the Interval, sets the new mode's full duration
\* and keeps sessions_completed.
C13_ChangeModeSwitch ==
    [][(lastOp' = "change_mode" /\ lastArg' # mode) =>
          /\ mode' = lastArg'
          /\ ~is_active'
          /\ interval' = None
          /\ registrations' = {}
          /\ seconds_remaining' = full_seconds(lastArg')
          /\ sessions_completed' = sessions_completed]_vars

C13_Witness ==
    /\ lastOp = "change_mode"
    /\ lastArg = "LongBreak"
    /\ mode = "LongBreak"
    /\ prevActive
    /\ ~is_active
    /\ seconds_remaining = settings.long_break_minutes * 60
    /\ sessions_completed = 1

\* C14: change_mode to the current mode changes neither the signals nor
\* the registration.
C14_ChangeModeSame ==
    [][(lastOp' = "change_mode" /\ lastArg' = mode) => UNCHANGED prog]_vars

\* the button of the current mode was pressed during a countdown, which
\* goes on
C14_Witness ==
    /\ lastOp = "change_mode"
    /\ lastArg = mode
    /\ is_active
    /\ registrations # {}
    /\ seconds_remaining < full_seconds(mode)

\* C15: on the run Init, start, ticks only: before work_minutes*60 ticks the
\* timer is still running in Work with one second gone per tick and no
\* session counted; the tick that stops it is tick number work_minutes*60
\* and leaves ShortBreak, stopped, short_break_minutes*60 seconds and one
\* session.
C15_FirstInterval ==
    /\ (scriptRound = 0 /\ lastOp \in {"start", "tick"}) =>
          /\ scriptTicks < settings.work_minutes * 60
          /\ mode = "Work"
          /\ is_active
          /\ sessions_completed = 0
          /\ seconds_remaining = settings.work_minutes * 60 - scriptTicks
    /\ (scriptRound = 1 /\ lastOp = "tick" /\ ~is_active) =>
          /\ scriptTicks = settings.work_minutes * 60
          /\ mode = "ShortBreak"
          /\ seconds_remaining = settings.short_break_minutes * 60
          /\ sessions_completed = 1

C15_Witness ==
    /\ scriptRound = 1
    /\ lastOp = "tick"
    /\ ~is_active
    /\ scriptTicks = settings.work_minutes * 60
    /\ mode = "ShortBreak"
    /\ sessions_completed = 1

\* C16: on the run that repeats (start, ticks to completion,
\* change_mode(Work)) from Init, the k-th Work completion leaves k sessions;
\* for k below sessions_before_long_break it leaves ShortBreak at its full
\* duration, for k equal to it LongBreak at its full duration; each
\* change_mode(Work) in between leaves Work at its full duration with the
\* count kept.
C16_SkippedBreaks ==
    /\ (scriptRound >= 1 /\ lastOp = "tick" /\ ~is_active) =>
          /\ sessions_completed = scriptRound
          /\ scriptTicks = settings.work_minutes * 60
          /\ scriptRound < settings.sessions_before_long_break =>
                /\ mode = "ShortBreak"
                /\ seconds_remaining = settings.short_break_minutes * 60
          /\ scriptRound = settings.sessions_before_long_break =>
                /\ mode = "LongBreak"
                /\ seconds_remaining = settings.long_break_minutes * 60
    /\ (scriptRound >= 1 /\ lastOp = "change_mode") =>
          /\ mode = "Work"
          /\ ~is_active
          /\ seconds_remaining = settings.work_minutes * 60
          /\ sessions_completed = scriptRound

C16_Witness ==
    /\ scriptRound = settings.sessions_before_long_break
    /\ lastOp = "tick"
    /\ ~is_active
    /\ mode = "LongBreak"
    /\ sessions_completed = settings.sessions_before_long_break
    /\ seconds_remaining = settings.long_break_minutes * 60

\* the session counter has reached the bound of the exploration and the
\* running Work interval cannot be counted
AtSessionCap ==
    mode = "Work" /\ sessions_completed >= MaxSessions

\* C17: with the Interval firing as long as it is registered, a running
\* timer does not run for ever: it stops, and when it is a tick that stops
\* it the mode has rotated (Work to a break, a break to Work).  No command
\* other than pause, reset and a mode-changing change_mode stops it, so a
\* run without them is ended by a completing tick.
C17_IntervalCompletes ==
    /\ (is_active /\ ~AtSessionCap) ~> ~is_active
    /\ [][(is_active /\ ~is_active') =>
             \/ lastOp' \in {"pause", "reset"}
             \/ lastOp' = "change_mode" /\ lastArg' # mode
             \/ /\ lastOp' = "tick"
                /\ seconds_remaining <= 1
                /\ IF mode = "Work"
                   THEN mode' \in {"ShortBreak", "LongBreak"}
                   ELSE mode' = "Work"]_vars

\* a break that ran on ticks alone, past the counted window, has ended
C17_Witness ==
    /\ lastOp = "tick"
    /\ nTicks > MaxTicks
    /\ prevActive
    /\ ~is_active
    /\ mode = "Work"
    /\ sessions_completed = 0

\* C18: in every reachable state start, pause, reset and change_mode of
\* each mode can run; a stopped timer can be started, which changes the
\* signals, and a running timer has a tick that changes them (up to the
\* session bound of the exploration).
C18_NoTerminalState ==
    /\ ENABLED Start
    /\ ENABLED Pause
    /\ ENABLED Reset
    /\ \A new_mode \in TimerMode : ENABLED ChangeMode(new_mode)
    /\ ~is_active => ENABLED (Start /\ is_active' /\ prog' # prog)
    /\ (is_active /\ ~(AtSessionCap /\ seconds_remaining <= 1)) =>
          ENABLED (\E h \in registrations : Tick(h) /\ prog' # prog)

\* the timer has stopped at the end of a long run of ticks, back in Work
\* after the fourth session: the cycle goes on from here
C18_Witness ==
    /\ lastOp = "tick"
    /\ nTicks > MaxTicks
    /\ ~is_active
    /\ mode = "Work"
    /\ sessions_completed = settings.sessions_before_long_break
    /\ ENABLED (Start /\ is_active')

\* C19: between handlers seconds_remaining is at least 1, and a tick taken
\* at 1 second ends the interval: the timer stops in another mode at that
\* mode's full duration.
C19_ZeroNeverShown ==
    /\ [](seconds_remaining >= 1)
    /\ [][(lastOp' = "tick" /\ seconds_remaining = 1) =>
             /\ ~is_active'
             /\ mode' # mode
             /\ seconds_remaining' = full_seconds(mode')
             /\ seconds_remaining' >= 1]_vars

\* a break restarted with one second left was ended by its next tick
C19_Witness ==
    /\ lastOp = "tick"
    /\ nTicks = 1
    /\ runFrom = 1
    /\ ~is_active
    /\ mode = "Work"
    /\ seconds_remaining = settings.work_minutes * 60

\* the number a two-character decimal field reads as
DigitValue(c) ==
    CHOOSE v \in 0..9 : DigitChar(v) = c

Field(d, i) ==
    DigitValue(d[i]) * 10 + DigitValue(d[i + 1])

\* C20: in every reachable state the displayed string is five characters
\* mm:ss of decimal digits whose minutes field reads seconds_remaining div 60
\* (at most 99) and whose seconds field reads seconds_remaining mod 60 (at
\* most 59), so that minutes*60 + seconds is seconds_remaining.
C20_DisplayFaithful ==
    LET d == time_display(seconds_remaining)
    IN /\ Len(d) = 5
       /\ d[3] = ":"
       /\ \A i \in {1, 2, 4, 5} : \E v \in 0..9 : d[i] = DigitChar(v)
       /\ Field(d, 1) = seconds_remaining \div 60
       /\ Field(d, 4) = seconds_remaining % 60
       /\ Field(d, 1) \in 0..99
       /\ Field(d, 4) \in 0..59
       /\ Field(d, 1) * 60 + Field(d, 4) = seconds_remaining

\* 04:59, one tick into a short break
C20_Witness ==
    /\ mode = "ShortBreak"
    /\ is_active
    /\ lastOp = "tick"
    /\ seconds_remaining = 299
    /\ time_display(seconds_remaining) = <<"0", "4", ":", "5", "9">>

====
